---------------------------- MODULE Spec2Model ----------------------------
(***************************************************************************)
(* Decision-boundary visualization engine of the LORE webapp.              *)
(*                                                                         *)
(* Two implementations live in the repository and both are modelled:       *)
(*   impl = "webapp"  : lore_sa/webapp/webapp_create_scatter_plot_data.py  *)
(*                      and webapp_dimensionality_reduction_utils.py       *)
(*   impl = "helpers" : src/pythonHelpers/create_scatter_plot_data.py      *)
(*                                                                         *)
(* Sequences are 1-based here; the original index i of the code is i+1.    *)
(***************************************************************************)
EXTENDS Integers, Sequences, FiniteSets

VARIABLES
    impl,              \* which implementation runs
    entry,             \* which of its main functions was called
    \* ---- density filter (DataFilter.filter_by_class) ----
    fpc,               \* position in filter_by_class
    points,            \* points: 2D coordinates, one per row
    labels,            \* labels: class label per row
    threshold,         \* DataFilter.threshold
    multiplier,        \* DataFilter.multiplier
    todo,              \* classes of np.unique(labels) not yet processed
    order,             \* classes in the order the loop has processed them
    picks,             \* per class: the indices that class contributed
    selected_indices,  \* selected_indices (list, then sorted array)
    filtered,          \* the returned rows, as their original indices
    \* ---- region extraction (_create_voronoi_regions) ----
    rpc,               \* position in _create_voronoi_regions / generate_for_pca
    mesh,              \* shape of xx, yy: w columns, h rows
    Z,                 \* predicted class of every mesh point
    class_names,       \* class_names
    Z_remapped,        \* Z_remapped
    G,                 \* nx.Graph: nodes and edges (region indices)
    region_class_map,  \* region index -> class name
    region_polygons,   \* list of polygons, each named by the site it was built for
    region_index_map,  \* region index -> position in region_polygons (0-based)
    merged_regions,    \* merged polygons, each the set of cells it unites
    merged_classes,    \* class name of every merged polygon
    bounds,            \* (x_min, x_max, y_min, y_max)
    boundary,          \* the decision boundary dict; regions are exterior rings
    \* ---- pipeline (ScatterPlotGenerator.generate / create_scatter_plot_data_raw) ----
    ppc,               \* position in generate
    method,            \* method, a string given as its characters
    step,              \* step
    original_count,    \* len(X_original), NoOriginal without X_original
    fitted,            \* class of the reducer that was fitted
    calls,             \* calls made on reducer, scaler and classifier by the boundary step
    original_flags,    \* original_flags / originalPointsNeighPointsBoolArray
    payload,           \* the returned dict
    \* ---- repeated requests ----
    run,               \* 1 for the first execution, 2 for its repetition
    first_payload,     \* the dict the first execution returned
    memo,              \* what each seeded or pure library call returned, by its arguments
    \* ---- reducer construction (create_dimensionality_reducer) ----
    kpc,               \* position in DimensionalityReducer.fit_transform
    parameters,        \* parameters: the keys of the dict, with the values that are tested
    n_samples,         \* X_scaled.shape[0]
    reducer_kwargs,    \* params: the keyword arguments the constructor receives
    \* ---- web routes (routes/webapp_api_explain.py) ----
    qpc,               \* position in the route that serves the request
    webapp_state,      \* the module-level WebappState object
    request,           \* the request being served
    served,            \* number of requests answered so far
    \* ---- one Voronoi cell (_is_valid_region, Polygon) ----
    cpc,               \* position in the body of the loop over the cells
    vor_region,        \* region: the vertex indices of the cell
    polygon,           \* the vertex indices Polygon was built from
    \* ---- one k-means centroid (loop over kmeans.cluster_centers_) ----
    kmeans_centroid,   \* centroid
    closest_idx        \* closest_idx

fvars == <<fpc, points, labels, threshold, multiplier, todo, order, picks,
           selected_indices, filtered>>

rvars == <<rpc, mesh, Z, class_names, Z_remapped, G, region_class_map,
           region_polygons, region_index_map, merged_regions, merged_classes,
           bounds, boundary>>

pvars == <<ppc, method, step, original_count, fitted, calls, original_flags,
           payload>>

svars == <<run, first_payload>>

kvars == <<kpc, parameters, n_samples, reducer_kwargs>>

qvars == <<qpc, webapp_state, request, served>>

cvars == <<cpc, vor_region, polygon>>

nvars == <<kmeans_centroid, closest_idx>>

vars == <<impl, entry, fvars, rvars, pvars, svars, memo, kvars, qvars, cvars,
          nvars>>

Impls == {"webapp", "helpers"}

\* the main functions: both implementations have the first, the helpers
\* have the second as well
Raw == "create_scatter_plot_data_raw"
Mapped == "create_scatter_plot_data"

(***************************************************************************)
(* Bounds of the model.                                                    *)
(***************************************************************************)
MaxPoints == 3
MaxThreshold == 2
MaxMultiplier == 2

MaxSide == 5
MaxInterior == 9

\* class indices the classifier can predict, and their names
ClassValues == {0, 1, 2}
AllClassNames == <<"c0", "c1", "c2">>
None == "None"
\* len(X_original) when X_original is None
NoOriginal == -1

\* label values of the rows
LabelValues == {0, 1}
\* lattice on which projected points lie, and on which k-means centres lie
PointSites == {<<0, 0>>, <<2, 0>>, <<0, 2>>}
CenterSites == (0..2) \X (0..2)

(***************************************************************************)
(* numpy helpers                                                           *)
(***************************************************************************)
Min(a, b) == IF a <= b THEN a ELSE b

Max(a, b) == IF a >= b THEN a ELSE b

Range(s) == {s[i] : i \in DOMAIN s}

RECURSIVE Insert(_, _)
Insert(x, s) ==
    IF s = <<>> THEN <<x>>
    ELSE IF x <= Head(s) THEN <<x>> \o s
    ELSE <<Head(s)>> \o Insert(x, Tail(s))

\* the final np.sort left out
SortSeqUnsorted(s) == s

RECURSIVE SortSeq(_)
\* np.sort: ascending, duplicates kept
SortSeq(s) == IF s = <<>> THEN <<>> ELSE Insert(Head(s), SortSeq(Tail(s)))

\* np.unique(labels), as the set of distinct values
Unique(ls) == Range(ls)

RECURSIVE WhereFrom(_, _, _)
WhereFrom(ls, cls, i) ==
    IF i > Len(ls) THEN <<>>
    ELSE (IF ls[i] = cls THEN <<i>> ELSE <<>>) \o WhereFrom(ls, cls, i + 1)

\* np.where(labels == cls)[0]: the indices of the class, ascending
ClassIndices(ls, cls) == WhereFrom(ls, cls, 1)

\* np.linalg.norm(p - c) compared through its square (monotone)
Dist2(p, c) == (p[1] - c[1]) * (p[1] - c[1]) + (p[2] - c[2]) * (p[2] - c[2])

\* the last position holding the minimum
ArgMinLast(d) ==
    CHOOSE i \in DOMAIN d :
        /\ \A j \in DOMAIN d : d[i] <= d[j]
        /\ \A j \in DOMAIN d : j > i => d[j] > d[i]

\* np.argmin(distances): the first position holding the minimum
ArgMin(d) ==
    CHOOSE i \in DOMAIN d :
        /\ \A j \in DOMAIN d : d[i] <= d[j]
        /\ \A j \in DOMAIN d : j < i => d[j] > d[i]

\* the class-local argmin used as if it were an original index
ClosestIdxLocal(pts, class_indices, centroid) ==
    ArgMin([k \in DOMAIN class_indices |->
                Dist2(pts[class_indices[k]], centroid)])

\* closest_idx = class_indices[np.argmin(norm(class_points - centroid))]
ClosestIdx(pts, class_indices, centroid) ==
    class_indices[ArgMin([k \in DOMAIN class_indices |->
                              Dist2(pts[class_indices[k]], centroid)])]

\* sample_size = min(threshold * multiplier, len(class_points))
SampleSize(thr, mult, n) == Min(thr * mult, n)

\* one cluster per sampled point instead of one per allowed row
NClustersOfSample(im, thr, sample_size) == sample_size

\* n_clusters handed to KMeans
NClusters(im, thr, sample_size) ==
    IF im = "webapp" THEN Min(thr, sample_size) ELSE thr

\* KMeans.cluster_centers_ lie in the bounding box of the fitted sample
InBox(c, pts, idxs) ==
    /\ \E i \in idxs : pts[i][1] <= c[1]
    /\ \E i \in idxs : pts[i][1] >= c[1]
    /\ \E i \in idxs : pts[i][2] <= c[2]
    /\ \E i \in idxs : pts[i][2] >= c[2]

\* rng.choice(len(class_points), size=sample_size, replace=False)
Samples(class_indices, sample_size) ==
    {sm \in SUBSET Range(class_indices) : Cardinality(sm) = sample_size}

\* KMeans(n_clusters).fit(sampled_points).cluster_centers_: where one centre
\* can lie, anywhere inside the sample's bounding box
KMeansCenters(pts, sampled) ==
    {c \in CenterSites : InBox(c, pts, sampled)}

\* the closest indices a centroid of this sample can select
ClosestOf(pts, class_indices, sampled) ==
    {ClosestIdx(pts, class_indices, c) : c \in KMeansCenters(pts, sampled)}

\* the loop over kmeans.cluster_centers_, one closest index per centroid:
\* every list of representatives the sampling and clustering can yield
Representatives(pts, class_indices, sample_size, n_clusters) ==
    UNION {[1..n_clusters -> ClosestOf(pts, class_indices, sm)] :
           sm \in Samples(class_indices, sample_size)}

\* dict.get(key): None when the key is absent
Get(map, key) == IF key \in DOMAIN map THEN map[key] ELSE None

\* map[key] = value
Put(map, key, value) ==
    [k \in DOMAIN map \cup {key} |-> IF k = key THEN value ELSE map[k]]

\* what a call returns whose result is fixed by its arguments and its seed:
\* the same as before when it was made before, any outcome otherwise
Seeded(m, key, outcomes) == IF key \in DOMAIN m THEN {m[key]} ELSE outcomes

(***************************************************************************)
(* DataFilter.filter_by_class / filter_points_by_class_kmeans              *)
(***************************************************************************)
FilterStart(pts, ls, thr, mult) ==
    /\ points' = pts
    /\ labels' = ls
    /\ threshold' = thr
    /\ multiplier' = mult
    /\ todo' = Unique(ls)
    /\ order' = <<>>
    /\ picks' = [c \in Unique(ls) |-> <<>>]
    /\ selected_indices' = <<>>
    /\ filtered' = <<>>
    /\ fpc' = "loop"

\* one iteration of the class loop, branch len(class_points) > threshold
FilterClassLarge ==
    /\ fpc = "loop"
    /\ \E cls \in todo :
        LET class_indices == ClassIndices(labels, cls)
            n == Len(class_indices)
            sample_size == SampleSize(threshold, multiplier, n)
            n_clusters == NClusters(impl, threshold, sample_size)
        IN  /\ n > threshold
            /\ IF n_clusters > sample_size
               THEN \* KMeans refuses n_samples < n_clusters
                    /\ fpc' = "error"
                    /\ UNCHANGED <<todo, order, picks, selected_indices, memo>>
               ELSE \E chosen \in Seeded(memo, <<"kmeans", <<cls, points>>>>,
                                          Representatives(points, class_indices,
                                                          sample_size, n_clusters)) :
                    /\ memo' = Put(memo, <<"kmeans", <<cls, points>>>>, chosen)
                    /\ selected_indices' = selected_indices \o chosen
                    /\ picks' = [picks EXCEPT ![cls] = chosen]
                    /\ todo' = todo \ {cls}
                    /\ order' = Append(order, cls)
                    /\ fpc' = "loop"
    /\ UNCHANGED <<impl, entry, nvars, cvars, qvars, kvars, svars, pvars, points, labels, threshold, multiplier,
                   filtered, rvars>>

\* one iteration of the class loop, branch len(class_points) <= threshold
FilterClassSmall ==
    /\ fpc = "loop"
    /\ \E cls \in todo :
        LET class_indices == ClassIndices(labels, cls)
        IN  /\ Len(class_indices) <= threshold
            /\ selected_indices' = selected_indices \o class_indices
            /\ picks' = [picks EXCEPT ![cls] = class_indices]
            /\ todo' = todo \ {cls}
            /\ order' = Append(order, cls)
    /\ UNCHANGED <<impl, entry, nvars, cvars, qvars, kvars, svars, memo, pvars, fpc, points, labels, threshold, multiplier, filtered, rvars>>

\* selected_indices = np.sort(selected_indices); return points[selected_indices], ...
FilterReturn ==
    /\ fpc = "loop"
    /\ todo = {}
    /\ selected_indices' = SortSeq(selected_indices)
    /\ filtered' = SortSeq(selected_indices)
    /\ fpc' = "done"
    /\ UNCHANGED <<impl, entry, nvars, cvars, qvars, kvars, svars, memo, pvars, points, labels, threshold, multiplier, todo, order, picks,
                   rvars>>

FilterIdle ==
    /\ fpc = "idle"
    /\ points = <<>>
    /\ labels = <<>>
    /\ threshold = 1
    /\ multiplier = 1
    /\ todo = {}
    /\ order = <<>>
    /\ picks = <<>>
    /\ selected_indices = <<>>
    /\ filtered = <<>>

RegionsIdle ==
    /\ rpc = "idle"
    /\ mesh = [w |-> 0, h |-> 0]
    /\ Z = <<>>
    /\ class_names = <<>>
    /\ Z_remapped = <<>>
    /\ G = [nodes |-> {}, edges |-> {}]
    /\ region_class_map = <<>>
    /\ region_polygons = <<>>
    /\ region_index_map = <<>>
    /\ merged_regions = <<>>
    /\ merged_classes = <<>>
    /\ bounds = <<0, 0, 0, 0>>
    /\ boundary = <<>>

\* parameters = None, which create_dimensionality_reducer reads as {}
NoParameters == [keys |-> {}, perplexity |-> 0, svd_solver |-> None]

\* no reducer was asked for
ReducerIdle ==
    /\ kpc = "idle"
    /\ parameters = NoParameters
    /\ n_samples = 0
    /\ reducer_kwargs = [keys |-> {}, perplexity |-> 0]

\* the keys of WebappState.dimensionality_reduction_parameters
StoreKeys ==
    {<<"U", "M", "A", "P">>, <<"P", "C", "A">>, <<"t", "-", "S", "N", "E">>,
     <<"M", "D", "S">>}

\* target_names of the loaded dataset
DatasetTargetNames == SubSeq(AllClassNames, 1, Cardinality(LabelValues))

\* WebappState() once a dataset is loaded
LoadedState ==
    [dimensionality_reduction_parameters |-> [k \in StoreKeys |-> NoParameters],
     target_names |-> DatasetTargetNames]

\* no call was made and no request was answered
RoutesIdle ==
    /\ run = 1
    /\ first_payload = None
    /\ memo = <<>>
    /\ qpc = "idle"
    /\ webapp_state = LoadedState
    /\ request = <<>>
    /\ served = 0

\* no cell is being looked at
CellIdle ==
    /\ cpc = "idle"
    /\ vor_region = <<>>
    /\ polygon = <<>>

\* no centroid is being looked at
CentroidIdle ==
    /\ kmeans_centroid = <<0, 0>>
    /\ closest_idx = 0

\* no request was served before
Fresh ==
    /\ RoutesIdle
    /\ CellIdle
    /\ CentroidIdle

\* generate / create_scatter_plot_data_raw is not running
GenerateIdle ==
    /\ entry = Raw
    /\ ReducerIdle
    /\ ppc = "idle"
    /\ method = <<>>
    /\ step = 1
    /\ original_count = NoOriginal
    /\ fitted = None
    /\ calls = <<>>
    /\ original_flags = <<>>
    /\ payload = None

PipelineIdle ==
    /\ Fresh
    /\ GenerateIdle

FilterInit ==
    /\ RegionsIdle
    /\ PipelineIdle
    /\ impl \in Impls
    /\ \E n \in 0..MaxPoints :
        /\ points \in [1..n -> PointSites]
        /\ labels \in [1..n -> LabelValues]
    /\ threshold \in 1..MaxThreshold
    /\ multiplier \in 1..MaxMultiplier
    /\ todo = Unique(labels)
    /\ order = <<>>
    /\ picks = [c \in Unique(labels) |-> <<>>]
    /\ selected_indices = <<>>
    /\ filtered = <<>>
    /\ fpc = "loop"

FilterNext == FilterClassLarge \/ FilterClassSmall \/ FilterReturn

SpecFilter == FilterInit /\ [][FilterNext]_vars

(***************************************************************************)
(* One pass of the loop over kmeans.cluster_centers_, for any centroid     *)
(***************************************************************************)
\* distances = np.linalg.norm(class_points - centroid, axis=1);
\* closest_idx = class_indices[np.argmin(distances)];
\* selected_indices.append(closest_idx)
NearestPick ==
    /\ fpc = "centroid"
    /\ \E cls \in todo :
           closest_idx' =
               ClosestIdx(points, ClassIndices(labels, cls), kmeans_centroid)
    /\ selected_indices' = Append(selected_indices, closest_idx')
    /\ fpc' = "picked"
    /\ UNCHANGED <<impl, entry, cvars, qvars, kvars, svars, memo, pvars,
                   rvars, points, labels, threshold, multiplier, todo, order,
                   picks, filtered, kmeans_centroid>>

\* the loop has reached a centroid of a class over the threshold
NearestInit ==
    /\ RegionsIdle
    /\ RoutesIdle
    /\ CellIdle
    /\ GenerateIdle
    /\ impl \in Impls
    /\ \E n \in 1..MaxPoints :
        /\ points \in [1..n -> PointSites]
        /\ labels \in [1..n -> LabelValues]
    /\ threshold \in 1..MaxThreshold
    /\ multiplier = 1
    /\ \E cls \in Unique(labels) :
        /\ Len(ClassIndices(labels, cls)) > threshold
        /\ todo = {cls}
    /\ order = <<>>
    /\ picks = [c \in Unique(labels) |-> <<>>]
    /\ selected_indices = <<>>
    /\ filtered = <<>>
    /\ kmeans_centroid \in CenterSites
    /\ closest_idx = 0
    /\ fpc = "centroid"

NearestNext == NearestPick

SpecNearest == NearestInit /\ [][NearestNext]_vars

(***************************************************************************)
(* scipy.spatial.Voronoi over the mesh np.c_[xx.ravel(), yy.ravel()]       *)
(*                                                                         *)
(* The sites form a w x h lattice, site p (1-based, row-major as ravel()   *)
(* lays them out) at column ColOf and row RowOf.  The Voronoi vertices are *)
(* the centres of the lattice squares; a cell is bounded exactly when all  *)
(* four squares around its site exist, and -1 stands for the vertex at     *)
(* infinity.  Two sites share a ridge when they are lattice neighbours.    *)
(***************************************************************************)
NumSites(m) == m.w * m.h

Sites(m) == 1..NumSites(m)

ColOf(m, p) == (p - 1) % m.w

RowOf(m, p) == (p - 1) \div m.w

SiteAt(m, c, r) == r * m.w + c + 1

\* index into vor.vertices of the centre of square (i, j), or -1
VertexAt(m, i, j) ==
    IF 0 <= i /\ i <= m.w - 2 /\ 0 <= j /\ j <= m.h - 2
    THEN j * (m.w - 1) + i
    ELSE -1

\* vor.point_region: the region index of site p (not the site index)
PointRegion(m, p) == NumSites(m) + 1 - p

\* vor.regions[vor.point_region[p]]: vertex indices, -1 when unbounded
VorRegion(m, p) ==
    LET c == ColOf(m, p)
        r == RowOf(m, p)
        corners == <<VertexAt(m, c - 1, r - 1), VertexAt(m, c, r - 1),
                     VertexAt(m, c, r), VertexAt(m, c - 1, r)>>
        finite == SelectSeq(corners, LAMBDA v : v # -1)
    IN  IF Len(finite) = 4 THEN corners ELSE <<-1>> \o finite

\* zip(vor.ridge_points, vor.ridge_vertices)
Ridges(m) ==
    {[p1 |-> SiteAt(m, c, r), p2 |-> SiteAt(m, c + 1, r),
      ridge_vertices |-> <<VertexAt(m, c, r - 1), VertexAt(m, c, r)>>] :
        c \in 0..(m.w - 2), r \in 0..(m.h - 1)}
    \cup
    {[p1 |-> SiteAt(m, c, r), p2 |-> SiteAt(m, c, r + 1),
      ridge_vertices |-> <<VertexAt(m, c - 1, r), VertexAt(m, c, r)>>] :
        c \in 0..(m.w - 1), r \in 0..(m.h - 2)}

\* Qhull rejects sites that all lie on one line
VoronoiFails(m) == m.w < 2 \/ m.h < 2

\* _is_valid_region / is_valid_voronoi_region
IsValidRegion(region) == (-1 \notin Range(region)) /\ Len(region) > 0

Bounded(m, p) == IsValidRegion(VorRegion(m, p))

(***************************************************************************)
(* One pass of the loop over the cells, for any vertex list                *)
(***************************************************************************)
\* vertices in one list, and the vertex indices of the model
MaxVertices == 4
VertexIndices == {-1, 0, 1, 2}

\* the vertex lists of the model
VertexLists == UNION {[1..n -> VertexIndices] : n \in 0..MaxVertices}

\* if self._is_valid_region(region) / if is_valid_voronoi_region(region)
CellValidate ==
    /\ cpc = "validate"
    /\ cpc' = IF IsValidRegion(vor_region) THEN "polygon" ELSE "dropped"
    /\ UNCHANGED <<impl, entry, nvars, qvars, kvars, svars, memo, fvars, rvars,
                   pvars, vor_region, polygon>>

\* polygon = Polygon([vor.vertices[i] for i in region]) and
\* region_polygons.append(polygon); shapely raises ValueError for a ring of
\* one or two coordinates
CellPolygon ==
    /\ cpc = "polygon"
    /\ IF Len(vor_region) < 3
       THEN /\ cpc' = "error"
            /\ UNCHANGED polygon
       ELSE /\ polygon' = vor_region
            /\ cpc' = "appended"
    /\ UNCHANGED <<impl, entry, nvars, qvars, kvars, svars, memo, fvars, rvars,
                   pvars, vor_region>>

CellInit ==
    /\ FilterIdle
    /\ RegionsIdle
    /\ RoutesIdle
    /\ CentroidIdle
    /\ GenerateIdle
    /\ impl \in Impls
    /\ cpc = "validate"
    /\ vor_region \in VertexLists
    /\ polygon = <<>>

CellNext == CellValidate \/ CellPolygon

SpecCell == CellInit /\ [][CellNext]_vars

(***************************************************************************)
(* _create_voronoi_regions / create_voronoi_regions                        *)
(***************************************************************************)
\* the remap keeps every class where it is
ClassMapIdentity(z) == [old \in Range(z) |-> old]

\* class_map = {old: new for new, old in enumerate(sorted(unique_classes))}
ClassMap(z) ==
    LET unique_classes == Range(z)
    IN  [old \in unique_classes |->
            Cardinality({u \in unique_classes : u < old})]

\* Z_remapped = [class_map[z] for z in Z.ravel()]
Remap(z) ==
    LET class_map == ClassMap(z)
    IN  [p \in DOMAIN z |-> class_map[z[p]]]

\* the state of the loop over vor.point_region before it starts
CellsStart ==
    [region_class_map |-> <<>>, region_polygons |-> <<>>,
     region_index_map |-> <<>>, polygon_idx |-> 0, nodes |-> {},
     raised |-> FALSE]

RECURSIVE CellsLoop(_, _, _, _, _, _)
\* for point_index, region_index in enumerate(vor.point_region), from site p on
CellsLoop(im, m, zr, names, p, acc) ==
    IF p > NumSites(m) \/ acc.raised THEN acc
    ELSE IF ~IsValidRegion(VorRegion(m, p))
    THEN CellsLoop(im, m, zr, names, p + 1, acc)
    ELSE LET region_index == PointRegion(m, p)
             appended == Append(acc.region_polygons, p)
             class_idx == zr[p]
         IN  IF class_idx >= Len(names)
             THEN IF im = "webapp"
                  THEN \* continue, after the polygon was appended
                       CellsLoop(im, m, zr, names, p + 1,
                                 [acc EXCEPT !.region_polygons = appended])
                  ELSE \* raise ValueError
                       [acc EXCEPT !.region_polygons = appended,
                                   !.raised = TRUE]
             ELSE CellsLoop(im, m, zr, names, p + 1,
                     [region_class_map |->
                          Put(acc.region_class_map, region_index,
                              names[class_idx + 1]),
                      region_polygons |-> appended,
                      region_index_map |->
                          Put(acc.region_index_map, region_index,
                              acc.polygon_idx),
                      polygon_idx |-> acc.polygon_idx + 1,
                      nodes |-> acc.nodes \cup {region_index},
                      raised |-> FALSE])

\* region_class_map.get(r1) == region_class_map.get(r2)
SameClass(rcm, r1, r2) == Get(rcm, r1) = Get(rcm, r2)

\* the ridges for which G.add_edge(r1, r2) runs
JoinedRidges(m, rcm) ==
    {rd \in Ridges(m) :
        /\ -1 \notin Range(rd.ridge_vertices)
        /\ SameClass(rcm, PointRegion(m, rd.p1), PointRegion(m, rd.p2))}

\* G after the loop over the ridges (add_edge also adds its end points)
AddAdjacencyEdges(g, m, rcm) ==
    LET joined == {{PointRegion(m, rd.p1), PointRegion(m, rd.p2)} :
                       rd \in JoinedRidges(m, rcm)}
    IN  [nodes |-> g.nodes \cup UNION joined, edges |-> g.edges \cup joined]

RECURSIVE Grow(_, _, _)
\* the nodes reachable from S along the edges of g; frontier: the newest ones
Grow(g, S, frontier) ==
    LET new == {n \in g.nodes \ S : \E s \in frontier : {s, n} \in g.edges}
    IN  IF new = {} THEN S ELSE Grow(g, S \cup new, new)

\* the site whose region index is r
SiteOfRegion(m, r) == NumSites(m) + 1 - r

RECURSIVE Components(_, _, _)
\* nx.connected_components(G) over the nodes not yet seen, in the order
\* networkx yields them: each starts at the first node not yet seen
Components(m, g, unseen) ==
    IF unseen = {} THEN <<>>
    ELSE LET first == CHOOSE n \in unseen : \A o \in unseen :
                          SiteOfRegion(m, n) <= SiteOfRegion(m, o)
             component == Grow(g, {first}, {first})
         IN  <<component>> \o Components(m, g, unseen \ component)

\* the union of every polygon, whatever the component
UnionOfEvery(polys, rim, component) == Range(polys)

\* unary_union([region_polygons[region_index_map[i]] for i in component
\*              if i in region_index_map]): the cells the union covers
UnionOf(polys, rim, component) ==
    {polys[rim[i] + 1] : i \in component \cap DOMAIN rim}

\* region_class_map[list(component)[0]]: any member may come first
FirstClasses(rcm, component) == {Get(rcm, i) : i \in component}

RECURSIVE ClassLists(_, _)
\* every merged_classes list the loop over the components can build;
\* None marks the KeyError of a member without a class
ClassLists(rcm, comps) ==
    IF comps = <<>> THEN {<<>>}
    ELSE {<<c>> \o rest : c \in FirstClasses(rcm, Head(comps)),
                         rest \in ClassLists(rcm, Tail(comps))}

(***************************************************************************)
(* p.exterior of a merged polygon                                          *)
(***************************************************************************)
\* the lattice neighbours of site p: the sites whose cells share an edge
\* with the cell of p
Neighbours(m, p) ==
    LET c == ColOf(m, p)
        r == RowOf(m, p)
    IN  (IF c > 0 THEN {p - 1} ELSE {})
        \cup (IF c < m.w - 1 THEN {p + 1} ELSE {})
        \cup (IF r > 0 THEN {p - m.w} ELSE {})
        \cup (IF r < m.h - 1 THEN {p + m.w} ELSE {})

RECURSIVE Spread(_, _, _, _)
\* the cells of `within` reachable from S through shared edges
Spread(m, within, S, frontier) ==
    LET new == (UNION {Neighbours(m, s) : s \in frontier} \cap within) \ S
    IN  IF new = {} THEN S ELSE Spread(m, within, S \cup new, new)

\* the union is a single Polygon (not empty, not a MultiPolygon)
IsPolygon(m, cells) ==
    /\ cells # {}
    /\ LET p == CHOOSE q \in cells : TRUE
       IN  Spread(m, cells, {p}, {p}) = cells

\* the sites whose cells reach infinity
UnboundedSites(m) == {p \in Sites(m) : ~Bounded(m, p)}

\* the cells inside the bounding box of the polygon instead of its ring
ExteriorBox(m, cells, outside) ==
    {p \in Sites(m) :
        /\ \E a, b \in cells : ColOf(m, a) <= ColOf(m, p) /\ ColOf(m, p) <= ColOf(m, b)
        /\ \E a, b \in cells : RowOf(m, a) <= RowOf(m, p) /\ RowOf(m, p) <= RowOf(m, b)}

\* the cells inside the exterior ring: the polygon's own cells and every
\* cell of a hole, that is, every cell that cannot be left through shared
\* edges without crossing the polygon
ExteriorFrom(m, cells, outside) ==
    Sites(m) \ Spread(m, Sites(m) \ cells, outside, outside)

Exterior(m, cells) == ExteriorFrom(m, cells, UnboundedSites(m))

(***************************************************************************)
(* The steps of _create_voronoi_regions and the return of generate_for_pca *)
(***************************************************************************)
RegionsStart(m, z, names, b) ==
    /\ mesh' = m
    /\ bounds' = b
    /\ Z' = z
    /\ class_names' = names
    /\ Z_remapped' = <<>>
    /\ G' = [nodes |-> {}, edges |-> {}]
    /\ region_class_map' = <<>>
    /\ region_polygons' = <<>>
    /\ region_index_map' = <<>>
    /\ merged_regions' = <<>>
    /\ merged_classes' = <<>>
    /\ boundary' = <<>>
    /\ rpc' = "remap"

\* unique_classes, class_map, Z_remapped; vor = Voronoi(...)
RegionsRemap ==
    /\ rpc = "remap"
    /\ Z_remapped' = Remap(Z)
    /\ rpc' = IF VoronoiFails(mesh) THEN "error" ELSE "cells"
    /\ UNCHANGED <<impl, entry, nvars, cvars, qvars, kvars, svars, memo, pvars, fvars, bounds, mesh, Z, class_names, G, region_class_map,
                   region_polygons, region_index_map, merged_regions,
                   merged_classes, boundary>>

\* the loop over vor.point_region
RegionsCells ==
    /\ rpc = "cells"
    /\ \E out \in {CellsLoop(impl, mesh, Z_remapped, class_names, 1,
                            CellsStart)} :
           /\ region_class_map' = out.region_class_map
           /\ region_polygons' = out.region_polygons
           /\ region_index_map' = out.region_index_map
           /\ G' = [nodes |-> out.nodes, edges |-> {}]
           /\ rpc' = IF out.raised THEN "error" ELSE "edges"
    /\ UNCHANGED <<impl, entry, nvars, cvars, qvars, kvars, svars, memo, pvars, fvars, bounds, mesh, Z, class_names, Z_remapped,
                   merged_regions, merged_classes, boundary>>

\* the loop over vor.ridge_points / add_adjacency_edges
RegionsEdges ==
    /\ rpc = "edges"
    /\ G' = AddAdjacencyEdges(G, mesh, region_class_map)
    /\ rpc' = "merge"
    /\ UNCHANGED <<impl, entry, nvars, cvars, qvars, kvars, svars, memo, pvars, fvars, bounds, mesh, Z, class_names, Z_remapped,
                   region_class_map, region_polygons, region_index_map,
                   merged_regions, merged_classes, boundary>>

\* the loop over nx.connected_components(G) / merge_connected_regions
RegionsMerge ==
    /\ rpc = "merge"
    /\ \E comps \in {Components(mesh, G, G.nodes)} :
           \E classes \in ClassLists(region_class_map, comps) :
            IF None \in Range(classes)
            THEN \* KeyError
                 /\ rpc' = "error"
                 /\ UNCHANGED <<merged_regions, merged_classes>>
            ELSE /\ merged_regions' =
                        [k \in DOMAIN comps |->
                            UnionOf(region_polygons, region_index_map, comps[k])]
                 /\ merged_classes' = classes
                 /\ rpc' = "emit"
    /\ UNCHANGED <<impl, entry, nvars, cvars, qvars, kvars, svars, memo, pvars, fvars, bounds, mesh, Z, class_names, Z_remapped, G,
                   region_class_map, region_polygons, region_index_map,
                   boundary>>

\* "regions": [list(p.exterior.coords) for p in regions], "regionClasses"
RegionsEmit ==
    /\ rpc = "emit"
    /\ IF \A k \in DOMAIN merged_regions : IsPolygon(mesh, merged_regions[k])
       THEN /\ \E outside \in {UnboundedSites(mesh)} :
                boundary' =
                  [regions |-> [k \in DOMAIN merged_regions |->
                                    ExteriorFrom(mesh, merged_regions[k], outside)],
                   regionClasses |-> merged_classes,
                   xRange |-> <<bounds[1], bounds[2]>>,
                   yRange |-> <<bounds[3], bounds[4]>>]
            /\ rpc' = "done"
       ELSE \* AttributeError: no exterior
            /\ rpc' = "error"
            /\ UNCHANGED boundary
    /\ UNCHANGED <<impl, entry, nvars, cvars, qvars, kvars, svars, memo, pvars, fvars, bounds, mesh, Z, class_names, Z_remapped, G,
                   region_class_map, region_polygons, region_index_map,
                   merged_regions, merged_classes>>

\* the meshes of the model: at most MaxSide sites a side, MaxInterior bounded
Meshes ==
    {m \in [w : 1..MaxSide, h : 1..MaxSide] :
        (m.w - 2) * (m.h - 2) <= MaxInterior \/ m.w < 2 \/ m.h < 2}

\* the predictions of the model: the bounded cells take up to two classes in
\* any pattern; the unbounded cells, which only feed np.unique, share one
Predictions(m, nn) ==
    {[p \in Sites(m) |-> IF Bounded(m, p) THEN inner[p] ELSE edge] :
        inner \in UNION {[{p \in Sites(m) : Bounded(m, p)} -> {a, b}] :
                             a, b \in 0..(nn - 1)},
        edge \in 0..(nn - 1)}

RegionsInit ==
    /\ FilterIdle
    /\ PipelineIdle
    /\ impl \in Impls
    /\ mesh \in Meshes
    /\ bounds = <<0, mesh.w, 0, mesh.h>>
    /\ \E nn \in 1..Len(AllClassNames) :
        /\ class_names = SubSeq(AllClassNames, 1, nn)
        /\ Z \in Predictions(mesh, nn)
    /\ Z_remapped = <<>>
    /\ G = [nodes |-> {}, edges |-> {}]
    /\ region_class_map = <<>>
    /\ region_polygons = <<>>
    /\ region_index_map = <<>>
    /\ merged_regions = <<>>
    /\ merged_classes = <<>>
    /\ boundary = <<>>
    /\ rpc = "remap"

RegionsNext ==
    RegionsRemap \/ RegionsCells \/ RegionsEdges \/ RegionsMerge \/ RegionsEmit

SpecRegions == RegionsInit /\ [][RegionsNext]_vars

(***************************************************************************)
(* The region extraction with fewer class names than predicted classes     *)
(***************************************************************************)
\* the largest number of names handed over with one class more predicted
MaxNames == 2

\* class_names holds nn names while the classifier predicts nn + 1 classes,
\* as when the names are those of the neighbourhood's labels only
ShortNamesInit ==
    /\ FilterIdle
    /\ PipelineIdle
    /\ impl \in Impls
    /\ mesh \in Meshes
    /\ bounds = <<0, mesh.w, 0, mesh.h>>
    /\ \E nn \in 1..MaxNames :
        /\ class_names = SubSeq(AllClassNames, 1, nn)
        /\ Z \in Predictions(mesh, nn + 1)
    /\ Z_remapped = <<>>
    /\ G = [nodes |-> {}, edges |-> {}]
    /\ region_class_map = <<>>
    /\ region_polygons = <<>>
    /\ region_index_map = <<>>
    /\ merged_regions = <<>>
    /\ merged_classes = <<>>
    /\ boundary = <<>>
    /\ rpc = "remap"

SpecShortNames == ShortNamesInit /\ [][RegionsNext]_vars

(***************************************************************************)
(* Projector: DimensionalityReducer / preprocess_data                      *)
(***************************************************************************)
\* the upper-case letters of the model's method names and their lower case
Lowercase ==
    [A |-> "a", C |-> "c", F |-> "f", M |-> "m", O |-> "o", P |-> "p",
     T |-> "t", U |-> "u"]

LowerChar(c) == IF c \in DOMAIN Lowercase THEN Lowercase[c] ELSE c

\* str.lower()
Lower(s) == [i \in DOMAIN s |-> LowerChar(s[i])]

pca == <<"p", "c", "a">>
tsne == <<"t", "s", "n", "e">>
umap == <<"u", "m", "a", "p">>
mds == <<"m", "d", "s">>

\* the method names of the model: the four known ones, two of them also
\* capitalised, and an unknown one in two spellings
Methods ==
    {pca, <<"P", "c", "a">>, tsne, umap, <<"U", "m", "a", "p">>, mds,
     <<"f", "o", "o">>, <<"F", "o", "o">>}

\* an unknown method is refused instead of falling back to PCA
CreateDimensionalityReducerStrict(meth) ==
    LET m == Lower(meth)
    IN  IF m = pca THEN "PCA"
        ELSE IF m = tsne THEN "TSNE"
        ELSE IF m = umap THEN "UMAP"
        ELSE IF m = mds THEN "MDS"
        ELSE "ValueError"

\* create_dimensionality_reducer: the class of the reducer it returns
CreateDimensionalityReducer(meth) ==
    LET m == Lower(meth)
    IN  IF m = pca THEN "PCA"
        ELSE IF m = tsne THEN "TSNE"
        ELSE IF m = umap THEN "UMAP"
        ELSE IF m = mds THEN "MDS"
        ELSE "PCA"

\* preprocess_data: the class of the model it fits, or the error it raises
PreprocessData(meth) ==
    LET method_lower == Lower(meth)
    IN  IF method_lower = pca THEN "PCA"
        ELSE IF method_lower = tsne THEN "TSNE"
        ELSE IF method_lower = umap THEN "UMAP"
        ELSE IF method_lower = mds THEN "MDS"
        ELSE "ValueError"

\* DimensionalityReducer.__init__: self.method
ReducerMethod(meth) == Lower(meth)

\* what fit_transform (webapp) or preprocess_data (helpers) fits
FitTransform(im, meth) ==
    IF im = "webapp"
    THEN CreateDimensionalityReducer(ReducerMethod(meth))
    ELSE PreprocessData(meth)

\* every reducer is built with the random_state of the request
RandomStateAlways(im, kind) == TRUE

\* the reducer is built with the random_state of the request: the helpers'
\* apply_pca_reduction builds PCA(n_components=2) without it
RandomStateGiven(im, kind) == ~(im = "helpers" /\ kind = "PCA")

\* the boundary is generated whatever the method
CanGenerateBoundaryAlways(meth) == TRUE

\* can_generate_boundary(method) / the test of create_decision_boundary
CanGenerateBoundary(meth) == Lower(meth) = pca

\* DimensionalityReducer.can_generate_boundary, on self.method, and
\* create_decision_boundary, on the method argument
BoundaryForPCA(im, meth) ==
    IF im = "webapp"
    THEN CanGenerateBoundary(ReducerMethod(meth))
    ELSE CanGenerateBoundary(meth)

\* the "method" entry of the returned dict: self.reducer.method / method
PayloadMethod(im, meth) == IF im = "webapp" THEN ReducerMethod(meth) ELSE meth

(***************************************************************************)
(* Reducer construction: create_dimensionality_reducer and the helpers'    *)
(* apply_*_reduction.  A parameter dict is held as the set of its keys;    *)
(* of the values only those the code tests are held: svd_solver, and       *)
(* perplexity, which is counted in thirds so that (n - 1) / 3 and n / 3    *)
(* are the integers n - 1 and n.                                           *)
(***************************************************************************)
\* a number of the code, in thirds
Thirds(x) == 3 * x

\* the keys each _create_*_reducer looks up in parameters
PCAKeys == {"whiten", "svd_solver", "tol", "iterated_power"}

TSNEKeys ==
    {"perplexity", "early_exaggeration", "learning_rate", "max_iter",
     "metric", "init", "method"}

UMAPKeys ==
    {"n_neighbors", "min_dist", "spread", "n_epochs", "learning_rate",
     "metric"}

MDSKeys == {"metric", "n_init", "max_iter", "eps", "dissimilarity"}

\* the keys a parameter dict of the model can hold: those above and three
\* no reducer looks up
ParameterKeys ==
    PCAKeys \cup TSNEKeys \cup UMAPKeys \cup MDSKeys
        \cup {"n_iter", "n_iter_without_progress", "verbose"}

\* values of svd_solver and of perplexity (2.0, 5.0, 30.0 and 50.0)
Solvers == {"full", "arpack", "randomized"}
Perplexities == {Thirds(2), Thirds(5), Thirds(30), Thirds(50)}

\* keys in one parameter dict, and the row counts of X_scaled
MaxKeys == 2
SampleCounts == {1, 5, 6, 16, 17, 91, 92, 152}

\* the parameter dicts of the model
ParameterBags ==
    UNION {{[keys |-> K, perplexity |-> p, svd_solver |-> v] :
                p \in IF "perplexity" \in K THEN Perplexities ELSE {0},
                v \in IF "svd_solver" \in K THEN Solvers ELSE {None}} :
           K \in {K \in SUBSET ParameterKeys : Cardinality(K) <= MaxKeys}}

\* the keys of parameters that the chain of `if k in parameters` copies
Copied(bag, keys) == bag.keys \cap keys

\* params.update(parameters): every key is passed on
CreateUmapReducerUpdate(bag) ==
    [keys |-> {"n_components", "random_state"} \cup bag.keys,
     perplexity |-> 0]

\* _create_pca_reducer: params
CreatePcaReducer(bag) ==
    [keys |-> {"n_components", "random_state"}
                \cup Copied(bag, {"whiten", "svd_solver"})
                \cup (IF bag.svd_solver = "arpack"
                      THEN Copied(bag, {"tol"}) ELSE {})
                \cup (IF bag.svd_solver = "randomized"
                      THEN Copied(bag, {"iterated_power"}) ELSE {}),
     perplexity |-> 0]

\* _create_tsne_reducer with X_scaled given: params
CreateTsneReducer(bag, n) ==
    [keys |-> {"n_components", "random_state", "n_jobs", "perplexity"}
                \cup Copied(bag, TSNEKeys),
     perplexity |->
        IF "perplexity" \in bag.keys
        THEN LET max_perplexity == Min(bag.perplexity, n - 1)
             IN  Max(Thirds(5), max_perplexity)
        ELSE Min(Thirds(30), n)]

\* _create_umap_reducer: params
CreateUmapReducer(bag) ==
    [keys |-> {"n_components", "random_state"} \cup Copied(bag, UMAPKeys),
     perplexity |-> 0]

\* _create_mds_reducer: params
CreateMdsReducer(bag) ==
    [keys |-> {"n_components", "random_state"} \cup Copied(bag, MDSKeys),
     perplexity |-> 0]

\* create_dimensionality_reducer: the keyword arguments of the reducer
CreateReducerKwargs(meth, bag, n) ==
    LET m == Lower(meth)
    IN  IF m = pca THEN CreatePcaReducer(bag)
        ELSE IF m = tsne THEN CreateTsneReducer(bag, n)
        ELSE IF m = umap THEN CreateUmapReducer(bag)
        ELSE IF m = mds THEN CreateMdsReducer(bag)
        ELSE [keys |-> {"n_components", "random_state"}, perplexity |-> 0]

\* apply_pca_reduction, apply_tsne_reduction, apply_umap_reduction and
\* apply_mds_reduction: the keyword arguments of the reducer
ApplyReductionKwargs(meth, n) ==
    LET kind == PreprocessData(meth)
    IN  IF kind = "PCA" THEN [keys |-> {"n_components"}, perplexity |-> 0]
        ELSE IF kind = "TSNE"
        THEN [keys |-> {"n_components", "random_state", "perplexity",
                        "early_exaggeration", "learning_rate", "n_iter",
                        "n_iter_without_progress"},
              perplexity |-> Min(Thirds(30), n)]
        ELSE IF kind \in {"UMAP", "MDS"}
        THEN [keys |-> {"n_components", "random_state"}, perplexity |-> 0]
        ELSE [keys |-> {}, perplexity |-> 0]

\* the keyword arguments either implementation builds its reducer with
ReducerKwargs(im, meth, bag, n) ==
    IF im = "webapp"
    THEN CreateReducerKwargs(ReducerMethod(meth), bag, n)
    ELSE ApplyReductionKwargs(meth, n)

\* self.reducer = create_dimensionality_reducer(...) / the model = ...(...)
\* line of an apply_*_reduction: the constructors check nothing
ReducerCreate ==
    /\ kpc = "create"
    /\ reducer_kwargs' = ReducerKwargs(impl, method, parameters, n_samples)
    /\ fitted' = FitTransform(impl, method)
    /\ kpc' = IF fitted' = "ValueError" THEN "error" ELSE "fit"
    /\ UNCHANGED <<impl, entry, nvars, cvars, qvars, svars, memo, fvars, rvars, ppc, method, step,
                   original_count, calls, original_flags, payload,
                   parameters, n_samples>>

\* reducer.fit_transform(X_scaled): TSNE refuses a perplexity that is not
\* below the number of rows
ReducerFit ==
    /\ kpc = "fit"
    /\ kpc' = IF fitted = "TSNE"
                 /\ reducer_kwargs.perplexity >= Thirds(n_samples)
              THEN "error"
              ELSE "fitted"
    /\ UNCHANGED <<impl, entry, nvars, cvars, qvars, svars, memo, fvars, rvars, pvars, parameters,
                   n_samples, reducer_kwargs>>

\* a reducer is asked for, for any method, row count and parameter dict;
\* the helpers take no parameter dict
ReducerInit ==
    /\ FilterIdle
    /\ RegionsIdle
    /\ Fresh
    /\ entry = Raw
    /\ impl \in Impls
    /\ method \in Methods
    /\ n_samples \in SampleCounts
    /\ parameters \in ParameterBags
    /\ impl = "helpers" => parameters = NoParameters
    /\ kpc = "create"
    /\ reducer_kwargs = [keys |-> {}, perplexity |-> 0]
    /\ ppc = "idle"
    /\ step = 1
    /\ original_count = NoOriginal
    /\ fitted = None
    /\ calls = <<>>
    /\ original_flags = <<>>
    /\ payload = None

ReducerNext == ReducerCreate \/ ReducerFit

SpecReducer == ReducerInit /\ [][ReducerNext]_vars

(***************************************************************************)
(* ScatterPlotGenerator.generate / create_scatter_plot_data_raw            *)
(***************************************************************************)
\* rows of the combined data set, step sizes of the mesh
MaxRows == 2
Steps == {1, 2}
\* step sizes no mesh can be built with
NonPositiveSteps == {-1, 0}

\* DataFilter() as generate builds it, and the arguments the helpers pass;
\* the values are scaled down to the row counts of the model
PipelineThreshold == 1
PipelineMultiplier == 2

MinOf(S) == CHOOSE x \in S : \A y \in S : x <= y

MaxOf(S) == CHOOSE x \in S : \A y \in S : y <= x

\* the ranges without the margin of 1
BoundsTight(pts) ==
    LET xs == {pts[i][1] : i \in DOMAIN pts}
        ys == {pts[i][2] : i \in DOMAIN pts}
    IN  <<MinOf(xs), MaxOf(xs), MinOf(ys), MaxOf(ys)>>

\* (x_min, x_max, y_min, y_max) of X_transformed
BoundsOf(pts) ==
    LET xs == {pts[i][1] : i \in DOMAIN pts}
        ys == {pts[i][2] : i \in DOMAIN pts}
    IN  <<MinOf(xs) - 1, MaxOf(xs) + 1, MinOf(ys) - 1, MaxOf(ys) + 1>>

\* len(np.arange(lo, hi, st)) for st > 0
ArangeLen(lo, hi, st) == (hi - lo + st - 1) \div st

\* the shape of np.meshgrid(np.arange(x_min, x_max, step), np.arange(...))
MeshOf(b, st) ==
    [w |-> ArangeLen(b[1], b[2], st), h |-> ArangeLen(b[3], b[4], st)]

\* grid_points[p]: np.arange yields start + i * step, meshgrid and ravel lay
\* the points out row by row
MeshPoint(m, b, st, p) ==
    <<b[1] + ColOf(m, p) * st, b[3] + RowOf(m, p) * st>>

\* [True] * len(X_original) + [False] * len(X), or all False
CombineFlags(n, oc) ==
    [i \in 1..n |-> IF oc = NoOriginal THEN FALSE ELSE i <= oc]

\* update_original_flags / update_original_points_array_for_filtering
UpdateOriginalFlags(n_filtered, oc) ==
    [i \in 1..n_filtered |-> IF oc = NoOriginal THEN FALSE ELSE i - 1 < oc]

\* combine_datasets / prepare_visualization_data_arrays
PipeCombine ==
    /\ ppc = "combine"
    /\ original_flags' = CombineFlags(Len(labels), original_count)
    /\ ppc' = "fit"
    /\ UNCHANGED <<impl, entry, nvars, cvars, qvars, kvars, svars, memo, fvars, rvars, method, step, original_count, fitted,
                   calls, payload>>

\* reducer.fit_transform / preprocess_data: X_transformed is what the fitted
\* reducer returns, one point per row
PipeFit ==
    /\ ppc = "fit"
    /\ LET kind == FitTransform(impl, method)
       IN  IF Len(labels) = 0 \/ kind = "ValueError"
           THEN \* StandardScaler.fit_transform refuses an array without
                \* rows; an unknown method is refused by the helpers
                /\ ppc' = "error"
                /\ UNCHANGED <<fitted, points, memo>>
           ELSE /\ fitted' = kind
                /\ \E pts \in IF RandomStateGiven(impl, kind)
                               THEN Seeded(memo, <<"fit", <<>>>>,
                                           [DOMAIN labels -> PointSites])
                               ELSE [DOMAIN labels -> PointSites] :
                     /\ points' = pts
                     /\ memo' = Put(memo, <<"fit", <<>>>>, pts)
                /\ ppc' = "filter"
    /\ UNCHANGED <<impl, entry, nvars, cvars, qvars, kvars, svars, fpc, labels, threshold, multiplier, todo, order,
                   picks, selected_indices, filtered, rvars, method, step,
                   original_count, calls, original_flags, payload>>

\* the call of filter_by_class / filter_points_by_class_kmeans
PipeFilter ==
    /\ ppc = "filter"
    /\ FilterStart(points, labels, PipelineThreshold, PipelineMultiplier)
    /\ ppc' = "filtering"
    /\ UNCHANGED <<impl, entry, nvars, cvars, qvars, kvars, svars, memo, rvars, method, step, original_count, fitted, calls,
                   original_flags, payload>>

\* generate_for_pca up to the call of _create_voronoi_regions, or
\* generate_basic_bounds
PipeBoundary ==
    /\ ppc = "filtering"
    /\ fpc = "done"
    /\ IF BoundaryForPCA(impl, method) /\ step = 0
       THEN \* np.arange raises ZeroDivisionError
            /\ ppc' = "error"
            /\ UNCHANGED <<calls, rvars, memo>>
       ELSE IF BoundaryForPCA(impl, method) /\ step < 0
       THEN \* np.arange is empty, and scaler.inverse_transform refuses the
            \* empty mesh with ValueError
            /\ calls' = calls \o <<"reducer.inverse_transform",
                                   "scaler.inverse_transform">>
            /\ ppc' = "error"
            /\ UNCHANGED <<rvars, memo>>
       ELSE IF BoundaryForPCA(impl, method)
       THEN /\ calls' = calls \o <<"reducer.inverse_transform",
                                   "scaler.inverse_transform", "predict">>
            /\ \E b \in {BoundsOf(points)} :
                 \E z \in Seeded(memo, <<"predict", <<points, step>>>>,
                                 Predictions(MeshOf(b, step), Len(class_names))) :
                    /\ RegionsStart(MeshOf(b, step), z, class_names, b)
                    /\ memo' = Put(memo, <<"predict", <<points, step>>>>, z)
            /\ ppc' = "regions"
       ELSE /\ \E b \in {BoundsOf(points)} :
                 /\ bounds' = b
                 /\ boundary' = [xRange |-> <<b[1], b[2]>>,
                                 yRange |-> <<b[3], b[4]>>]
            /\ ppc' = "flags"
            /\ UNCHANGED <<calls, rpc, mesh, Z, class_names, Z_remapped, G,
                           region_class_map, region_polygons,
                           region_index_map, merged_regions, merged_classes,
                           memo>>
    /\ UNCHANGED <<impl, entry, nvars, cvars, qvars, kvars, svars, fvars, method, step, original_count, fitted,
                   original_flags, payload>>

\* an exception of the filter or of the region extraction leaves generate
PipeRaise ==
    /\ \/ ppc = "filtering" /\ fpc = "error"
       \/ ppc = "regions" /\ rpc = "error"
    /\ ppc' = "error"
    /\ UNCHANGED <<impl, entry, nvars, cvars, qvars, kvars, svars, memo, fvars, rvars, method, step, original_count, fitted,
                   calls, original_flags, payload>>

\* update_original_flags / update_original_points_array_for_filtering;
\* create_scatter_plot_data has no such call and keeps the array of
\* prepare_visualization_data_arrays
PipeFlags ==
    /\ \/ ppc = "flags"
       \/ ppc = "regions" /\ rpc = "done"
    /\ original_flags' = IF entry = Mapped
                          THEN original_flags
                          ELSE UpdateOriginalFlags(Len(filtered), original_count)
    /\ ppc' = "return"
    /\ UNCHANGED <<impl, entry, nvars, cvars, qvars, kvars, svars, memo, fvars, rvars, method, step, original_count, fitted,
                   calls, payload>>

\* the returned dict; rows of X_combined are named by their index
PipeReturn ==
    /\ ppc = "return"
    /\ payload' =
         [transformedData |-> [k \in DOMAIN filtered |-> points[filtered[k]]],
          originalData |-> filtered,
          targets |-> [k \in DOMAIN filtered |-> labels[filtered[k]]],
          decisionBoundary |-> boundary,
          method |-> PayloadMethod(impl, method),
          originalPointsNeighPointsBoolArray |-> original_flags]
    /\ ppc' = "done"
    /\ UNCHANGED <<impl, entry, nvars, cvars, qvars, kvars, svars, memo, fvars, rvars, method, step, original_count, fitted,
                   calls, original_flags>>

\* a first request with one of the given methods, row counts and steps
RequestInit(methods, rows, steps, entries) ==
    /\ Fresh
    /\ ReducerIdle
    /\ impl \in Impls
    /\ entry \in entries
    /\ entry = Mapped => impl = "helpers"
    /\ method \in methods
    /\ step \in steps
    /\ \E n \in rows :
        /\ labels \in [1..n -> LabelValues]
        /\ original_count \in {NoOriginal} \cup 1..(n - 1)
    /\ class_names = SubSeq(AllClassNames, 1, Cardinality(LabelValues))
    /\ ppc = "combine"
    /\ fitted = None
    /\ calls = <<>>
    /\ original_flags = <<>>
    /\ payload = None
    /\ fpc = "idle"
    /\ points = <<>>
    /\ threshold = 1
    /\ multiplier = 1
    /\ todo = {}
    /\ order = <<>>
    /\ picks = <<>>
    /\ selected_indices = <<>>
    /\ filtered = <<>>
    /\ rpc = "idle"
    /\ mesh = [w |-> 0, h |-> 0]
    /\ Z = <<>>
    /\ Z_remapped = <<>>
    /\ G = [nodes |-> {}, edges |-> {}]
    /\ region_class_map = <<>>
    /\ region_polygons = <<>>
    /\ region_index_map = <<>>
    /\ merged_regions = <<>>
    /\ merged_classes = <<>>
    /\ bounds = <<0, 0, 0, 0>>
    /\ boundary = <<>>

\* the requests on data the reducers accept, with a usable step
PipelineInit == RequestInit(Methods, 1..MaxRows, Steps, {Raw})

\* the requests with the four known methods, empty data and steps of no use
\* included
AnyRequestInit ==
    RequestInit({pca, tsne, umap, mds}, 0..MaxRows, NonPositiveSteps \cup {1},
                {Raw})

PipelineNext ==
    \/ PipeCombine \/ PipeFit \/ PipeFilter \/ PipeBoundary \/ PipeRaise
    \/ PipeFlags \/ PipeReturn
    \/ FilterNext
    \/ RegionsNext

SpecPipeline == PipelineInit /\ [][PipelineNext]_vars

SpecAnyRequest == AnyRequestInit /\ [][PipelineNext]_vars

\* a request through either main function
EntriesInit == RequestInit(Methods, 1..MaxRows, Steps, {Raw, Mapped})

SpecEntries == EntriesInit /\ [][PipelineNext]_vars

(***************************************************************************)
(* The payload as the routes deliver it                                    *)
(***************************************************************************)
\* DataProcessor._add_encoded_data_to_output, called by
\* prepare_scatter_data_with_original / prepare_scatter_data_neighborhood_only
\* on the dict create_scatter_plot_data_raw returned: originalData becomes one
\* dict per row of X_encoded followed by one per row of X_neighborhood, that
\* is every row of the combined set in its order
AddEncodedDataToOutput ==
    /\ qpc = "idle"
    /\ ppc = "done"
    /\ entry = Raw
    /\ payload' = [payload EXCEPT !.originalData = [i \in DOMAIN labels |-> i]]
    /\ qpc' = "respond"
    /\ UNCHANGED <<impl, entry, nvars, cvars, kvars, svars, memo, fvars, rvars,
                   ppc, method, step, original_count, fitted, calls,
                   original_flags, webapp_state, request, served>>

\* a request to a route of either application, or a call of the helpers'
\* create_scatter_plot_data
DeliveredInit == RequestInit(Methods, 1..MaxRows, Steps, {Raw, Mapped})

DeliveredNext == PipelineNext \/ AddEncodedDataToOutput

SpecDelivered == DeliveredInit /\ [][DeliveredNext]_vars

(***************************************************************************)
(* The same request served a second time                                   *)
(***************************************************************************)
\* create_scatter_plot_data_raw is called again with the arguments and the
\* random_state of the call that has just returned
PipeRepeat ==
    /\ ppc = "done"
    /\ run = 1
    /\ run' = 2
    /\ first_payload' = payload
    /\ ppc' = "combine"
    /\ fitted' = None
    /\ calls' = <<>>
    /\ original_flags' = <<>>
    /\ payload' = None
    /\ fpc' = "idle"
    /\ points' = <<>>
    /\ threshold' = 1
    /\ multiplier' = 1
    /\ todo' = {}
    /\ order' = <<>>
    /\ picks' = <<>>
    /\ selected_indices' = <<>>
    /\ filtered' = <<>>
    /\ rpc' = "idle"
    /\ mesh' = [w |-> 0, h |-> 0]
    /\ Z' = <<>>
    /\ Z_remapped' = <<>>
    /\ G' = [nodes |-> {}, edges |-> {}]
    /\ region_class_map' = <<>>
    /\ region_polygons' = <<>>
    /\ region_index_map' = <<>>
    /\ merged_regions' = <<>>
    /\ merged_classes' = <<>>
    /\ bounds' = <<0, 0, 0, 0>>
    /\ boundary' = <<>>
    /\ UNCHANGED <<impl, entry, nvars, cvars, qvars, kvars, method, step, labels, original_count,
                   class_names, memo>>

\* the requests that are repeated: an invertible method, a non-invertible
\* one and an unknown one, on the finest mesh, without a reference set
RepeatInit ==
    /\ PipelineInit
    /\ method \in {pca, tsne, <<"F", "o", "o">>}
    /\ step = 1
    /\ original_count = NoOriginal

RepeatNext == PipelineNext \/ PipeRepeat

SpecRepeat == RepeatInit /\ [][RepeatNext]_vars

(***************************************************************************)
(* The web routes: explain_instance / update_visualization, which serve    *)
(* every request from the one module-level webapp_state.  The routes are   *)
(* coroutines without an await, so requests are served one after another.  *)
(***************************************************************************)
\* requests served in one run of the application
MaxRequests == 2

\* the lower-case letters of the model's method names and their upper case
Uppercase ==
    [a |-> "A", c |-> "C", d |-> "D", e |-> "E", m |-> "M", n |-> "N",
     p |-> "P", s |-> "S", t |-> "T", u |-> "U"]

UpperChar(c) == IF c \in DOMAIN Uppercase THEN Uppercase[c] ELSE c

\* str.upper()
Upper(s) == [i \in DOMAIN s |-> UpperChar(s[i])]

\* dict.update: a after a.update(b)
DictUpdate(a, b) ==
    [keys |-> a.keys \cup b.keys,
     perplexity |-> IF "perplexity" \in b.keys THEN b.perplexity
                    ELSE a.perplexity,
     svd_solver |-> IF "svd_solver" \in b.keys THEN b.svd_solver
                    ELSE a.svd_solver]

\* WebappState.update_dimensionality_reduction_parameters: the stored dicts
\* afterwards
UpdateDimensionalityReductionParameters(stored, all_parameters) ==
    [k \in DOMAIN stored |->
        IF k \in DOMAIN all_parameters
        THEN DictUpdate(stored[k], all_parameters[k])
        ELSE stored[k]]

\* WebappState.get_dimensionality_reduction_parameters(method)
GetDimensionalityReductionParameters(stored, meth) ==
    IF Upper(meth) \in DOMAIN stored THEN stored[Upper(meth)]
    ELSE NoParameters

\* list(np.unique(y)): the distinct labels in ascending order, each written
\* as the name it is then used as
LabelNames == <<"0", "1">>

RECURSIVE AscendingNames(_)
AscendingNames(S) ==
    IF S = {} THEN <<>>
    ELSE <<LabelNames[MinOf(S) + 1]>> \o AscendingNames(S \ {MinOf(S)})

\* the parameter dicts a request carries
RequestBags ==
    {NoParameters}
        \cup {[keys |-> {k}, perplexity |-> 0, svd_solver |-> None] :
                k \in {"whiten", "metric"}}

\* allMethodParameters: empty, or the dict of one method, under the name the
\* store uses or under another
AllMethodParameters ==
    {<<>>}
        \cup UNION {{[k \in {name} |-> bag] : bag \in RequestBags \ {NoParameters}} :
                    name \in {<<"P", "C", "A">>, <<"t", "-", "S", "N", "E">>,
                              pca}}

\* the requests of the model
Requests ==
    [dimensionalityReductionMethod : {pca, tsne},
     dimensionalityReductionParameters : RequestBags,
     allMethodParameters : AllMethodParameters,
     includeOriginalDataset : BOOLEAN]

\* the route: the neighbourhood predictions y of the request are at hand and
\* webapp_state.target_names is read as the class_names argument
ExplainInstance ==
    /\ qpc = "idle"
    /\ served < MaxRequests
    /\ request' \in Requests
    /\ \E n \in 1..MaxRows : labels' \in [1..n -> LabelValues]
    /\ class_names' = webapp_state.target_names
    /\ qpc' = "prepare"
    /\ UNCHANGED <<impl, entry, nvars, cvars, kvars, svars, memo, pvars, fpc, points,
                   threshold, multiplier, todo, order, picks,
                   selected_indices, filtered, rpc, mesh, Z, Z_remapped, G,
                   region_class_map, region_polygons, region_index_map,
                   merged_regions, merged_classes, bounds, boundary,
                   webapp_state, served>>

\* prepare_scatter_data_neighborhood_only / prepare_scatter_data_with_original,
\* up to the call of generate_scatter_plot_data
PrepareScatterData ==
    /\ qpc = "prepare"
    /\ webapp_state' =
         IF request.includeOriginalDataset
         THEN webapp_state
         ELSE [webapp_state EXCEPT
                 !.target_names = AscendingNames(Unique(labels))]
    /\ qpc' = "generate"
    /\ UNCHANGED <<impl, entry, nvars, cvars, kvars, svars, memo, pvars, fvars, rvars,
                   request, served>>

\* VisualizationGenerator.generate_scatter_plot_data, up to the call of
\* create_scatter_plot_data_raw
GenerateScatterPlotData ==
    /\ qpc = "generate"
    /\ LET stored ==
             UpdateDimensionalityReductionParameters(
                 webapp_state.dimensionality_reduction_parameters,
                 request.allMethodParameters)
       IN  /\ webapp_state' =
                [webapp_state EXCEPT
                   !.dimensionality_reduction_parameters = stored]
           /\ method' = request.dimensionalityReductionMethod
           /\ parameters' =
                DictUpdate(
                    GetDimensionalityReductionParameters(stored, method'),
                    request.dimensionalityReductionParameters)
    /\ n_samples' = Len(labels)
    /\ kpc' = "create"
    /\ qpc' = "reduce"
    /\ UNCHANGED <<impl, entry, nvars, cvars, svars, memo, fvars, rvars, ppc, step,
                   original_count, fitted, calls, original_flags, payload,
                   reducer_kwargs, request, served>>

\* the response is sent; what the call held is gone, webapp_state stays
Respond ==
    /\ qpc = "reduce"
    /\ kpc \in {"fitted", "error"}
    /\ served' = served + 1
    /\ qpc' = "idle"
    /\ request' = <<>>
    /\ kpc' = "idle"
    /\ parameters' = NoParameters
    /\ n_samples' = 0
    /\ reducer_kwargs' = [keys |-> {}, perplexity |-> 0]
    /\ method' = <<>>
    /\ fitted' = None
    /\ labels' = <<>>
    /\ class_names' = <<>>
    /\ UNCHANGED <<impl, entry, nvars, cvars, svars, memo, fpc, points, threshold,
                   multiplier, todo, order, picks, selected_indices, filtered,
                   rpc, mesh, Z, Z_remapped, G, region_class_map,
                   region_polygons, region_index_map, merged_regions,
                   merged_classes, bounds, boundary, ppc, step,
                   original_count, calls, original_flags, payload,
                   webapp_state>>

\* the application after a dataset was loaded
RoutesInit ==
    /\ FilterIdle
    /\ RegionsIdle
    /\ PipelineIdle
    /\ impl = "webapp"

RoutesNext ==
    \/ ExplainInstance \/ PrepareScatterData \/ GenerateScatterPlotData
    \/ Respond
    \/ ReducerNext

SpecRoutes == RoutesInit /\ [][RoutesNext]_vars

(***************************************************************************)
(* Properties of the density filter                                        *)
(***************************************************************************)
\* rows of the returned labels array that carry class cls
RowsOfClass(cls) == {k \in DOMAIN filtered : labels[filtered[k]] = cls}

\* how often original index i occurs in a sequence of indices
Occurrences(s, i) == Cardinality({k \in DOMAIN s : s[k] = i})

\* the classes' contributions, concatenated in a fixed (ascending class) order
RECURSIVE FlattenPicks(_, _)
FlattenPicks(pk, classes) ==
    IF classes = {} THEN <<>>
    ELSE LET c == CHOOSE x \in classes : \A y \in classes : x <= y
         IN  pk[c] \o FlattenPicks(pk, classes \ {c})

IsAscending(s) == \A k \in 1..(Len(s) - 1) : s[k] <= s[k + 1]

\* C1: the filter's output holds at most `threshold` rows of each class label,
\* for every input and every threshold >= 1 and multiplier >= 1.
C1_AtMostThresholdPerClass ==
    fpc = "done" =>
        \A cls \in LabelValues : Cardinality(RowsOfClass(cls)) <= threshold

\* a class above the threshold was reduced by clustering, with a sample larger
\* than the threshold
C1_Witness ==
    /\ fpc = "done"
    /\ \E cls \in Unique(labels) :
        /\ Len(ClassIndices(labels, cls)) > threshold
        /\ SampleSize(threshold, multiplier, Len(ClassIndices(labels, cls)))
               > threshold
        /\ RowsOfClass(cls) # {}

\* C2: every class at or below the threshold keeps each of its original
\* indices exactly once in the output, whatever happens to the other classes.
C2_SmallClassesPassThrough ==
    fpc = "done" =>
        \A cls \in Unique(labels) :
            Len(ClassIndices(labels, cls)) <= threshold =>
                \A i \in Range(ClassIndices(labels, cls)) :
                    Occurrences(filtered, i) = 1

\* a small class passed through next to a class that was clustered
C2_Witness ==
    /\ fpc = "done"
    /\ \E small, large \in Unique(labels) :
        /\ Len(ClassIndices(labels, small)) <= threshold
        /\ Len(ClassIndices(labels, large)) > threshold
        /\ \E i \in Range(ClassIndices(labels, small)) :
               \E j \in Range(ClassIndices(labels, large)) : j < i

\* C3: the returned rows are in ascending order of original index, and the
\* returned sequence is fixed by what each class contributes on its own (the
\* ascending arrangement of those contributions), whatever the order in which
\* the class loop ran.
C3_AscendingOrderIndependent ==
    fpc = "done" =>
        /\ IsAscending(filtered)
        /\ \A i \in DOMAIN labels :
               Occurrences(filtered, i)
                   = Occurrences(FlattenPicks(picks, Unique(labels)), i)
        /\ \A cls \in Unique(labels) :
               LET ci == ClassIndices(labels, cls)
                   ss == SampleSize(threshold, multiplier, Len(ci))
               IN  IF Len(ci) > threshold
                   THEN picks[cls] \in Representatives(points, ci, ss,
                                           NClusters(impl, threshold, ss))
                   ELSE picks[cls] = ci

\* the loop ran the classes in descending order and the unsorted selection
\* was not ascending
C3_Witness ==
    /\ fpc = "done"
    /\ Len(order) = 2
    /\ order[1] > order[2]
    /\ ~IsAscending(FlattenPicks(picks, Unique(labels)))
    /\ ~IsAscending(picks[order[1]] \o picks[order[2]])

\* the rows of the class whose centroid is looked at
ClassRows == {i \in DOMAIN labels : labels[i] \in todo}

\* C25: for a class over the threshold and any centroid, the index added to
\* the selection is the original index of the point of the class's full
\* point set with the smallest Euclidean distance to the centroid, ties
\* going to the lowest original index; so the selected row carries the label
\* of the class it was selected for.
C25_NearestOfFullClass ==
    fpc = "picked" =>
        /\ closest_idx \in ClassRows
        /\ \A j \in ClassRows :
               LET mine == Dist2(points[closest_idx], kmeans_centroid)
                   other == Dist2(points[j], kmeans_centroid)
               IN  mine < other \/ (mine = other /\ closest_idx <= j)
        /\ selected_indices = <<closest_idx>>

\* a centroid was served by the lower of two equally near rows of its class
\* although a row of another class lies nearer
C25_Witness ==
    /\ fpc = "picked"
    /\ \E j \in ClassRows :
           /\ j > closest_idx
           /\ Dist2(points[j], kmeans_centroid)
                  = Dist2(points[closest_idx], kmeans_centroid)
    /\ \E j \in DOMAIN labels \ ClassRows :
           Dist2(points[j], kmeans_centroid)
               < Dist2(points[closest_idx], kmeans_centroid)

\* C29: no row of the input appears more than once in the output of the
\* filter: the selected indices are strictly ascending, also when two
\* centroids of one class have the same nearest point.
C29_NoRowTwice ==
    fpc = "done" =>
        \A j, k \in DOMAIN filtered : j < k => filtered[j] < filtered[k]

(***************************************************************************)
(* Properties of the region extraction                                     *)
(***************************************************************************)
\* site p has a Voronoi cell without the -1 sentinel
NoSentinel(m, p) == -1 \notin Range(VorRegion(m, p))

\* the pairs of sites that share a ridge with two finite end points
FiniteRidgePairs(m) ==
    {{rd.p1, rd.p2} : rd \in {x \in Ridges(m) : -1 \notin Range(x.ridge_vertices)}}

RECURSIVE ChainFrom(_, _, _, _)
\* the cells of `same` that a chain of finite ridges inside `same` joins to S
ChainFrom(pairs, same, S, frontier) ==
    LET new == {q \in same \ S : \E s \in frontier : {s, q} \in pairs}
    IN  IF new = {} THEN S ELSE ChainFrom(pairs, same, S \cup new, new)

\* the bounded cells joined to p by a chain of bounded cells of p's class
ChainOf(m, z, p) ==
    ChainFrom(FiniteRidgePairs(m),
              {q \in Sites(m) : NoSentinel(m, q) /\ z[q] = z[p]}, {p}, {p})

\* the indices of the merged regions that contain the cell of site p
RegionsOf(p) == {k \in DOMAIN merged_regions : p \in merged_regions[k]}

\* C4: two bounded cells are in the same output region iff a chain of bounded
\* same-class cells over finite ridges joins them (so areas separated by a
\* band of another class stay apart), and a grid predicted entirely as one
\* class, with at least one bounded cell, yields exactly one region, labelled
\* with the name of that class.
C4_SameRegionIffChain ==
    rpc = "done" =>
        /\ \A p \in Sites(mesh) : NoSentinel(mesh, p) =>
               LET chain == ChainOf(mesh, Z, p)
               IN  \A q \in Sites(mesh) : NoSentinel(mesh, q) =>
                       ((RegionsOf(p) \cap RegionsOf(q) # {}) <=> q \in chain)
        /\ \A c \in ClassValues :
               (/\ \A p \in Sites(mesh) : Z[p] = c
                /\ \E p \in Sites(mesh) : NoSentinel(mesh, p))
               => /\ Len(boundary.regions) = 1
                  /\ boundary.regionClasses = <<class_names[c + 1]>>

\* the rings of two regions with different labels share no cell
RingsApart(j, k) ==
    boundary.regionClasses[j] # boundary.regionClasses[k]
        => boundary.regions[j] \cap boundary.regions[k] = {}

\* C5 as stated: no cell lies inside the emitted exterior rings of two output
\* regions with different class labels, enclosed islands included.
C5_RingsDisjoint ==
    rpc = "done" => \A j, k \in DOMAIN boundary.regions : RingsApart(j, k)

\* region j lies in a hole of region k
Island(j, k) ==
    merged_regions[j] \subseteq boundary.regions[k] \ merged_regions[k]

\* C5: two output regions with different class labels share no cell of their
\* merged polygons, every ring contains its polygon, and their emitted
\* exterior rings share a cell only when one region is an island enclosed in
\* a hole of the other.
C5_RingsDisjointUpToIslands ==
    rpc = "done" =>
        \A j, k \in DOMAIN boundary.regions :
            /\ merged_regions[j] \subseteq boundary.regions[j]
            /\ boundary.regionClasses[j] # boundary.regionClasses[k] =>
                /\ merged_regions[j] \cap merged_regions[k] = {}
                /\ boundary.regions[j] \cap boundary.regions[k] # {}
                       => Island(j, k) \/ Island(k, j)

\* a region of one class encloses an island of another class, and two other
\* regions of different classes lie side by side
C5_Witness ==
    /\ rpc = "done"
    /\ \E j, k \in DOMAIN boundary.regions :
        /\ boundary.regionClasses[j] # boundary.regionClasses[k]
        /\ Island(j, k)
        /\ boundary.regions[j] \cap boundary.regions[k] # {}

AbsentClasses ==
    {i \in DOMAIN class_names : \A p \in Sites(mesh) : Z[p] # i - 1}

\* C16: a class name that the classifier predicts for no mesh point is not in
\* regionClasses, and on a mesh with a bounded cell the region extraction
\* raises no error.
C16_AbsentClassOmitted ==
    (rpc # "idle" /\ AbsentClasses # {}) =>
        /\ (\E p \in Sites(mesh) : NoSentinel(mesh, p)) => rpc # "error"
        /\ rpc = "done" =>
               \A i \in AbsentClasses :
                   class_names[i] \notin Range(boundary.regionClasses)

\* C21: the class remap of a call is computed from that call's Z and is an
\* order-preserving bijection from the distinct values of Z onto 0..k-1, k
\* being their number; when the distinct values of Z are among the known
\* classes, no lookup into class_names is out of range.
C21_RemapOrderPreservingBijection ==
    rpc \notin {"idle", "remap"} =>
        LET k == Cardinality(Range(Z))
        IN  /\ DOMAIN Z_remapped = DOMAIN Z
            /\ Range(Z_remapped) = 0..(k - 1)
            /\ \A p, q \in DOMAIN Z :
                   (Z[p] < Z[q]) <=> (Z_remapped[p] < Z_remapped[q])
            /\ Range(Z) \subseteq 0..(Len(class_names) - 1) =>
                   /\ \A p \in DOMAIN Z :
                          Z_remapped[p] + 1 \in DOMAIN class_names
                   /\ Len(region_polygons) =
                          Cardinality(DOMAIN region_class_map)

\* the remap of a grid whose classes are not contiguous was used for the
\* lookups of a finished call
C21_Witness ==
    /\ rpc = "done"
    /\ Range(Z) = {0, 2}
    /\ Range(Z_remapped) = {0, 1}
    /\ Len(class_names) = 3

\* C22: a cell is turned into a polygon only if its vertex list has no -1
\* sentinel and at least 3 vertices; a cell with 1 or 2 vertices is dropped
\* silently and never causes an error.
C22_DegenerateCellDropped ==
    /\ cpc = "appended" =>
           -1 \notin Range(vor_region) /\ Len(vor_region) >= 3
    /\ Len(vor_region) \in {1, 2} => cpc \notin {"polygon", "error"}

\* region r is a bounded cell that has a polygon and a class label
RecordedCell(r) ==
    /\ r \in DOMAIN region_class_map
    /\ r \in DOMAIN region_index_map
    /\ \E p \in Sites(mesh) : PointRegion(mesh, p) = r /\ NoSentinel(mesh, p)

\* regions r1 and r2 share a ridge without the -1 vertex
ShareFiniteRidge(r1, r2) ==
    \E pair \in FiniteRidgePairs(mesh) :
        {PointRegion(mesh, p) : p \in pair} = {r1, r2}

\* C23: after the edges are built, every node of the adjacency graph is a
\* bounded cell with a polygon and a class label, and an edge joins r1 and
\* r2 if and only if both are such cells, they share a ridge without a -1
\* vertex, and their class labels are equal.
C23_GraphOverRecordedCells ==
    rpc \in {"merge", "emit", "done"} =>
        /\ \A r \in G.nodes : RecordedCell(r)
        /\ \A p, q \in Sites(mesh) :
               LET r1 == PointRegion(mesh, p)
                   r2 == PointRegion(mesh, q)
               IN  p # q =>
                     ({r1, r2} \in G.edges <=>
                        /\ RecordedCell(r1)
                        /\ RecordedCell(r2)
                        /\ ShareFiniteRidge(r1, r2)
                        /\ region_class_map[r1] = region_class_map[r2])

\* C24: in every connected component that is merged all member cells carry
\* the same class label, so the label emitted for the merged region, read
\* from one member, exists and is the label of every member.
C24_ComponentsShareOneLabel ==
    /\ rpc \in {"merge", "emit", "done"} =>
           /\ \A r \in G.nodes : r \in DOMAIN region_class_map
           /\ \A ed \in G.edges : \A r1, r2 \in ed :
                  Get(region_class_map, r1) = Get(region_class_map, r2)
    /\ rpc \in {"emit", "done"} =>
           \A k \in DOMAIN merged_regions : \A p \in merged_regions[k] :
               region_class_map[PointRegion(mesh, p)] = merged_classes[k]
    /\ rpc = "error" => G.nodes \subseteq DOMAIN region_class_map

\* C26: each entry of regionClasses is class_names[z], z being the class
\* index the classifier predicted for the cells of the region, whatever
\* subset of the classes occurs in Z.
C26_RegionNamedByRawClass ==
    rpc = "done" =>
        \A k \in DOMAIN boundary.regionClasses :
            \A p \in merged_regions[k] :
                boundary.regionClasses[k] = class_names[Z[p] + 1]

\* C30: throughout the region construction of the webapp, for every recorded
\* cell r, region_index_map[r] is the position in region_polygons of the
\* polygon built from r's own vertices, also after an earlier cell was
\* skipped for a class index without a name; so each merged region is the
\* union of the polygons of exactly its own members.
C30_IndexMapPointsAtOwnPolygon ==
    (impl = "webapp" /\ rpc \in {"edges", "merge", "emit", "done"}) =>
        /\ \A r \in DOMAIN region_index_map :
               /\ region_index_map[r] + 1 \in DOMAIN region_polygons
               /\ region_polygons[region_index_map[r] + 1]
                      = SiteOfRegion(mesh, r)
        /\ rpc \in {"emit", "done"} =>
               \E comps \in {Components(mesh, G, G.nodes)} :
                   \A k \in DOMAIN merged_regions :
                       merged_regions[k]
                           = {SiteOfRegion(mesh, r) : r \in comps[k]}

(***************************************************************************)
(* Properties of the pipeline                                              *)
(***************************************************************************)
KnownMethods == {pca, tsne, umap, mds}

\* the call sequence of the mesh classification
MeshClassification ==
    <<"reducer.inverse_transform", "scaler.inverse_transform", "predict">>

\* the method name of a reducer class
NameOf(kind) ==
    CASE kind = "PCA" -> pca
      [] kind = "TSNE" -> tsne
      [] kind = "UMAP" -> umap
      [] kind = "MDS" -> mds
      [] OTHER -> <<>>

\* C7: for method tsne, umap or mds (in any letter case) no mesh is ever
\* inverse-transformed, the classifier's predict is never called, no region
\* extraction starts, and the returned decisionBoundary has exactly the keys
\* xRange and yRange.
C7_NonInvertibleOnlyRanges ==
    Lower(method) \in {tsne, umap, mds} =>
        /\ calls = <<>>
        /\ rpc = "idle"
        /\ ppc = "done" =>
               DOMAIN payload.decisionBoundary = {"xRange", "yRange"}

\* a payload was returned for a non-invertible method, spelled with a capital
C7_Witness ==
    /\ ppc = "done"
    /\ method = <<"U", "m", "a", "p">>
    /\ fitted = "UMAP"
    /\ Len(payload.transformedData) >= 1

\* C8 as stated: whenever the fitted reducer is PCA, the mesh is classified
\* through inverse PCA, inverse standardisation and predict, and the returned
\* decisionBoundary contains regions and regionClasses.
C8_PCAFittedMeansClassified ==
    (ppc = "done" /\ fitted = "PCA") =>
        /\ calls = MeshClassification
        /\ {"regions", "regionClasses"} \subseteq DOMAIN payload.decisionBoundary

\* the projector has run, or has raised
AfterFit == ppc \notin {"idle", "combine", "fit"}

C10_PayloadMethodNamesReducer ==
    ppc = "done" =>
        /\ payload.method \in KnownMethods
        /\ payload.method = NameOf(fitted)

\* the boundary step of the request has run
AfterBoundary == ppc \in {"regions", "flags", "return", "done"}

\* lo is the least and hi the greatest of the values of coordinate c over all
\* rows of X_transformed, each moved outwards by 1
IsRangeOf(lo, hi, c) ==
    /\ \A i \in DOMAIN points : lo <= points[i][c] - 1 /\ points[i][c] + 1 <= hi
    /\ \E i \in DOMAIN points : lo = points[i][c] - 1
    /\ \E i \in DOMAIN points : hi = points[i][c] + 1

C13_MeshCeilingEnforced ==
    \A ceiling \in 1..(MaxSide * MaxSide) :
        (/\ AfterBoundary
         /\ BoundaryForPCA(impl, method)
         /\ NumSites(MeshOf(bounds, step)) > ceiling)
        => /\ rpc = "idle"
           /\ "predict" \notin Range(calls)

\* C14: for every method and every step <= 0 the request never returns a
\* payload.
C14_NonPositiveStepFails ==
    step <= 0 => ppc # "done"

\* C15: a request without any point raises no error, and the payload it
\* returns has empty transformedData, originalData and targets.
C15_EmptyInputEmptyPayload ==
    Len(labels) = 0 =>
        /\ ppc # "error"
        /\ ppc = "done" =>
               /\ payload.transformedData = <<>>
               /\ payload.originalData = <<>>
               /\ payload.targets = <<>>

(***************************************************************************)
(* Properties of repeated requests                                         *)
(***************************************************************************)
\* C11: a second execution on identical inputs with the same seed returns
\* the same transformedData in the same order and the same decision boundary
\* (regions and regionClasses included) as the first.
C11_RepeatedRunSame ==
    (run = 2 /\ ppc = "done") =>
        /\ payload.transformedData = first_payload.transformedData
        /\ payload.decisionBoundary = first_payload.decisionBoundary

\* C19: in the returned payload originalPointsNeighPointsBoolArray has
\* exactly one entry per retained point, and entry i (counted from 0) is true
\* if and only if a reference set was supplied and i is less than its row
\* count.
C19_FlagPerRetainedPoint ==
    ppc = "done" =>
        LET flags == payload.originalPointsNeighPointsBoolArray
        IN  /\ Len(flags) = Len(payload.transformedData)
            /\ \A i \in DOMAIN flags :
                   flags[i] = (original_count # NoOriginal
                               /\ i - 1 < original_count)

\* C27: for every retained point the entry of
\* originalPointsNeighPointsBoolArray is true exactly when the point is a row
\* of the reference dataset, that is when its index in the combined set is
\* below the reference size, also when the filter removed rows.
C27_FlagFollowsRetainedRow ==
    ppc = "done" =>
        LET flags == payload.originalPointsNeighPointsBoolArray
        IN  /\ Len(flags) = Len(payload.originalData)
            /\ \A k \in DOMAIN flags :
                   flags[k] = (original_count # NoOriginal
                               /\ payload.originalData[k] - 1 < original_count)

\* the payload is what the client receives: the route has post-processed the
\* dict of create_scatter_plot_data_raw, or create_scatter_plot_data returned
Delivered ==
    \/ qpc = "respond"
    \/ ppc = "done" /\ entry = Mapped

\* C28: in every payload delivered to the client, also after the
\* post-processing of /explain and /update-visualization, transformedData,
\* originalData, targets and originalPointsNeighPointsBoolArray have the same
\* length, and their i-th entries describe the same row of the combined set.
C28_DeliveredArraysAligned ==
    Delivered =>
        /\ Len(payload.originalData) = Len(payload.transformedData)
        /\ Len(payload.targets) = Len(payload.transformedData)
        /\ Len(payload.originalPointsNeighPointsBoolArray)
               = Len(payload.transformedData)
        /\ \A k \in DOMAIN payload.transformedData :
               /\ payload.transformedData[k] = points[filtered[k]]
               /\ payload.targets[k] = labels[filtered[k]]
               /\ k \in DOMAIN payload.originalData
                      => payload.originalData[k] = filtered[k]
               /\ k \in DOMAIN payload.originalPointsNeighPointsBoolArray
                      => payload.originalPointsNeighPointsBoolArray[k]
                             = (original_count # NoOriginal
                                /\ filtered[k] - 1 < original_count)

(***************************************************************************)
(* Properties of the reducer construction                                  *)
(***************************************************************************)
\* the reducer has been built
ReducerBuilt == kpc \in {"fit", "fitted", "error"} /\ fitted # "ValueError"

\* the keys of the parameter dict that are among the keyword arguments
UserKeysPassed == reducer_kwargs.keys \cap parameters.keys

\* the allow-lists as the documentation names them
ListedKeys ==
    [PCA |-> {"whiten", "svd_solver", "tol", "iterated_power"},
     TSNE |-> {"perplexity", "early_exaggeration", "learning_rate", "n_iter",
               "metric", "init"},
     UMAP |-> {"n_neighbors", "min_dist", "spread", "n_epochs",
               "learning_rate", "metric"},
     MDS |-> {"metric", "n_init", "max_iter", "eps", "dissimilarity"}]

\* the allow-lists with the t-SNE keys the code copies
CopiedKeys == [ListedKeys EXCEPT !.TSNE = TSNEKeys]

\* C17 as stated: for each method and every parameter dict, the user-supplied
\* keys that reach the constructor are within the method's listed allow-list
\* (t-SNE: perplexity, early_exaggeration, learning_rate, n_iter, metric,
\* init), and building the reducer raises no error.
C17_OnlyListedKeysPassed ==
    (impl = "webapp" /\ kpc # "create") =>
        /\ fitted # "ValueError"
        /\ UserKeysPassed \subseteq ListedKeys[fitted]

\* C17 amended: the same with the t-SNE allow-list perplexity,
\* early_exaggeration, learning_rate, max_iter, metric, init, method: n_iter
\* is dropped like any unknown key; a method that is not known builds a PCA
\* that receives no user-supplied key.
C17_OnlyCopiedKeysPassed ==
    (impl = "webapp" /\ kpc # "create") =>
        /\ fitted # "ValueError"
        /\ UserKeysPassed \subseteq CopiedKeys[fitted]
        /\ Lower(method) \notin KnownMethods => UserKeysPassed = {}

\* a t-SNE was built from a dict with max_iter and n_iter: the first is
\* passed on, the second dropped
C17_Witness ==
    /\ impl = "webapp"
    /\ kpc = "fitted"
    /\ fitted = "TSNE"
    /\ parameters.keys = {"max_iter", "n_iter"}
    /\ UserKeysPassed = {"max_iter"}

\* C18: the perplexity passed to the t-SNE constructor is strictly less than
\* (n - 1) / 3, n being the number of rows, whether the perplexity was
\* supplied or defaulted.
C18_PerplexityBelowThird ==
    (ReducerBuilt /\ fitted = "TSNE") =>
        reducer_kwargs.perplexity < n_samples - 1

(***************************************************************************)
(* Properties of the web routes                                            *)
(***************************************************************************)
\* the parameters generate_scatter_plot_data passes on when the request is
\* the first one the application serves
OwnParameters(req) ==
    DictUpdate(
        GetDimensionalityReductionParameters(
            UpdateDimensionalityReductionParameters(
                LoadedState.dimensionality_reduction_parameters,
                req.allMethodParameters),
            req.dimensionalityReductionMethod),
        req.dimensionalityReductionParameters)

\* C20: the reducer parameters and the class names used for a request are
\* determined by that request's own inputs alone: they are what they would
\* be had no other request been served before, whatever the earlier requests
\* supplied.
C20_OwnInputsOnly ==
    qpc = "reduce" =>
        /\ parameters = OwnParameters(request)
        /\ class_names = DatasetTargetNames
        /\ kpc # "create" =>
              reducer_kwargs =
                  ReducerKwargs(impl, method, OwnParameters(request), n_samples)

=============================================================================
